---- MODULE Spec2Model ----
(***************************************************************************)
(* State-machine model of MemoryApp (src/memory.py): the configuration     *)
(* menu, the deal, the flip / deferred-evaluation state machine, the turn  *)
(* controller, the gallery recorder and the end-of-game report.            *)
(*                                                                         *)
(* Python lists that are indexed by card or player are modelled as         *)
(* functions on 0..n-1, so that indices and the modular turn arithmetic    *)
(* are those of the source.  self.flipped and self.matched_paths are only  *)
(* appended to and iterated, and are modelled as sequences.                *)
(***************************************************************************)
EXTENDS Integers, Sequences, FiniteSets, TLC

\* ------------------------------------------------------------------------
\* Program constants and model bounds
\* ------------------------------------------------------------------------

\* len(MemoryApp.PLAYER_COLORS)
PLAYER_COLORS_LEN == 6

\* Largest player count the "+" button is pressed up to in the model.
MaxPlayers == 2

\* Largest number of root.after(1000, check_match) timers outstanding at once.
MaxPending == 2

\* ------------------------------------------------------------------------
\* Helpers
\* ------------------------------------------------------------------------

Min(a, b) == IF a <= b THEN a ELSE b

Max(a, b) == IF a >= b THEN a ELSE b

RECURSIVE SumScores(_, _)
\* sum(player_scores[0..n-1])
SumScores(scores, n) ==
    IF n = 0 THEN 0 ELSE scores[n - 1] + SumScores(scores, n - 1)

RECURSIVE MaxScore(_, _)
\* max(player_scores[0..n-1]), n >= 1
MaxScore(scores, n) ==
    IF n = 1 THEN scores[0] ELSE Max(scores[n - 1], MaxScore(scores, n - 1))

\* The Python value None, where a photo or a path may stand.
None == [none |-> TRUE]

\* The last handler showed no message box.
NoDialog == [kind |-> "none"]

\* While the game runs the shortcut utility has not been started.
ShortcutIdle == [pc |-> "idle"]

\* ------------------------------------------------------------------------
\* The file system the program reads (its environment)
\* ------------------------------------------------------------------------

\* The file system is a fixed fixture.  Texts that can end up in the folder
\* entry: empty, a path that is no directory, a directory without images,
\* the directory "pics" of three good images, and the directory "mixed" of
\* one good and one corrupt image.  Boards therefore have one, two or three
\* pairs; a board of three pairs has 90 deals, a fourth image would add
\* 2520 deals of eight cards.
Folders == {"", "nodir", "empty", "pics", "mixed"}

\* The image files of "pics" and of "mixed", sorted by name.
PicsFiles == <<"a.png", "b.png", "c.png">>

MixedFiles == <<"good.png", "corrupt.png">>

\* The directories that were removed from the disk after the program started.
VARIABLE deleted

\* Largest number of directories removed in one run.
MaxDeleted == 1

\* The directories of the fixture.
Directories == {"empty", "pics", "mixed"}

\* os.path.isdir
isdir(folder) == folder \in Directories \ deleted

\* os.path.join(root_dir, file)
FilePath(folder, file) == [folder |-> folder, file |-> file]

\* get_image_paths: sorted list of the image files below the folder.
get_image_paths(folder) ==
    IF folder = "" \/ ~isdir(folder) THEN <<>>
    ELSE IF folder = "pics"
         THEN [k \in 1..Len(PicsFiles) |-> FilePath("pics", PicsFiles[k])]
    ELSE IF folder = "mixed"
         THEN [k \in 1..Len(MixedFiles) |-> FilePath("mixed", MixedFiles[k])]
    ELSE <<>>

\* Image.open succeeds on the file.
Decodable(path) == path.file # "corrupt.png"

\* load_image: the cached PhotoImage object of the path, or None.  Two
\* PhotoImage objects compare equal only when they are the same object, and
\* the cache holds one object per (path, size) key.
load_image(path) == IF Decodable(path) THEN [photo |-> path] ELSE None

\* ------------------------------------------------------------------------
\* I18n (src/i18n.py)
\* ------------------------------------------------------------------------

\* What yaml.safe_load can put into a catalog: a string, a boolean (the
\* plain scalars yes, no, on and off load as booleans), or a mapping from key
\* parts to such values.  dict.get gives None for a part that the mapping
\* lacks.
Str(v) == [tag |-> "str", v |-> v]

Bool(v) == [tag |-> "bool", v |-> v]

Dict(items) == [tag |-> "dict", items |-> items]

\* isinstance(x, dict) and isinstance(x, str)
isinstance_dict(x) == x # None /\ x.tag = "dict"

isinstance_str(x) == x # None /\ x.tag = "str"

\* The language codes, in the order in which _load_locales meets the files:
\* de.yml, en.yml and "fr .yml", whose stem ends with a blank.
LanguageOrder == <<"de", "en", "fr ">>

\* A code for which no catalog exists.
UnknownLanguage == "fr"

\* key.split(".")
split(key) ==
    CASE key = "a.c" -> <<"a", "c">>
      [] key = "players.default_name" -> <<"players", "default_name">>
      [] OTHER -> <<key>>

RECURSIVE resolve_from(_, _, _)
\* I18n._resolve, the loop from part k on.
resolve_from(current, parts, k) ==
    IF k > Len(parts) THEN current
    ELSE IF ~isinstance_dict(current) THEN None
    ELSE resolve_from(IF parts[k] \in DOMAIN current.items
                      THEN current.items[parts[k]] ELSE None,
                      parts, k + 1)

\* I18n._resolve
resolve(data, parts) == resolve_from(data, parts, 1)

\* self.messages.get(lang, {})
messages_get(messages, lang) ==
    IF lang \in DOMAIN messages THEN messages[lang] ELSE Dict(<<>>)

\* next(iter(self.messages)): the first catalog that was loaded.
first_language(messages) ==
    LanguageOrder[CHOOSE k \in 1..Len(LanguageOrder) :
                     /\ LanguageOrder[k] \in DOMAIN messages
                     /\ \A j \in 1..(k - 1) :
                          LanguageOrder[j] \notin DOMAIN messages]

\* I18n.t(key) without format arguments.
I18n_t(messages, default, lang, key) ==
    IF key = "" THEN ""
    ELSE LET parts == split(key)
             first == resolve(messages_get(messages, lang), parts)
             value == IF first = None /\ default \in DOMAIN messages
                      THEN resolve(messages_get(messages, default), parts)
                      ELSE first
         IN  IF ~isinstance_str(value) THEN key ELSE value.v

\* str.strip on the texts that are used as language codes.
strip_code(code) ==
    CASE code = " de " -> "de"
      [] code = "fr " -> "fr"
      [] OTHER -> code

\* str.lower on the texts that are used as language codes.
lower_code(code) == IF code = "EN" THEN "en" ELSE code

\* (code or "").strip().lower()
normalize_code(code) == lower_code(strip_code(code))

\* I18n.set_language(code): the new value of self.lang.
I18n_set_language(messages, default, lang, code) ==
    IF normalize_code(code) \in DOMAIN messages THEN normalize_code(code)
    ELSE LET normalized == IF default \in DOMAIN messages THEN default
                           ELSE lang
         IN  IF normalized \notin DOMAIN messages /\ DOMAIN messages # {}
             THEN first_language(messages)
             ELSE normalized

\* I18n.__init__: (default or "de").strip().lower()
constructor_default(default) ==
    IF default = "" THEN "de" ELSE normalize_code(default)

\* I18n.__init__: self.default once the catalogs are loaded.
I18n_default(messages, default) ==
    IF default \notin DOMAIN messages /\ DOMAIN messages # {}
    THEN first_language(messages)
    ELSE default

\* The catalogs of the application: both languages hold the template of the
\* default player name.
AppLocales ==
    [lang \in {"de", "en"} |->
        Dict([p \in {"players"} |->
            Dict([q \in {"default_name"} |->
                Str(IF lang = "de" THEN "Spieler {index}"
                    ELSE "Player {index}")])])]

\* value.format(index=n) on the templates of AppLocales and on the raw key.
format_index(value, n) ==
    CASE value = "Spieler {index}" ->
             <<"Spieler 1", "Spieler 2", "Spieler 3", "Spieler 4",
               "Spieler 5", "Spieler 6">>[n]
      [] value = "Player {index}" ->
             <<"Player 1", "Player 2", "Player 3", "Player 4",
               "Player 5", "Player 6">>[n]
      [] OTHER -> value

\* _("players.default_name", index=n)
default_name(messages, default, lang, n) ==
    format_index(I18n_t(messages, default, lang, "players.default_name"), n)

\* ------------------------------------------------------------------------
\* Avatars and names
\* ------------------------------------------------------------------------

\* The avatar files of the configured avatar folder, sorted by name, and
\* what the program keeps of them: avatar_lookup maps a path to its stem and
\* default_avatar_path is the first path.
AvatarOptions == <<"cat.png", "dog.png">>

avatar_lookup == [path \in {"cat.png", "dog.png"} |->
                     IF path = "cat.png" THEN "cat" ELSE "dog"]

default_avatar_path == AvatarOptions[1]

\* Texts typed into a name entry of the names dialog, and str.strip on them.
NameTexts == {"", " Ann "}

strip(text) == IF text = " Ann " THEN "Ann" ELSE text

\* ------------------------------------------------------------------------
\* State
\* ------------------------------------------------------------------------

VARIABLES
    menu_frame,        \* TRUE while the configuration menu is on screen
    player_var,        \* menu: player count (tk.IntVar)
    folder_var,        \* menu: folder entry (tk.StringVar)
    pairs_var,         \* menu: pair count (tk.IntVar)
    available_images,  \* number of images counted by the last refresh
    start_enabled,     \* state of the start button is "normal"
    last_settings,     \* the last-settings record
    num_players,
    num_pairs,
    num_cards,
    cards,             \* card index -> image object; <<>> when no board
    card_paths,        \* card index -> source path
    buttons,           \* card index -> what the button shows / its state
    flipped,           \* the flip selection, in flip order
    matched,           \* set of matched card indices
    card_owner,        \* dict: matched card index -> player index
    player_scores,     \* player index -> score; <<>> when no game
    current_player,
    matched_paths,     \* the gallery: sequence of [path, player]
    review_button,     \* the gallery button of the sidebar; None when no game
    shortcut,          \* create_shortcut.py: its inputs and what a run of main left
    pending,           \* after(1000, check_match) timers not yet fired
    finish_calls,      \* calls of finish_game since the last start_game
    dialog,            \* message box shown by the last handler
    last_op,           \* the last handler that ran and the branch it took
    rows,              \* board layout of the last deal; 0 before the first
    cols,
    card_size,
    screen,            \* what Tk reports: screen size and sidebar width
    bottom_border_percent,  \* BOTTOM_BORDER_FRACTION, in percent
    i18n_messages,     \* I18N.messages: language code -> catalog
    i18n_default,      \* I18N.default
    i18n_lang,         \* I18N.lang
    t_result,          \* key and return value of the observed call of I18N.t
    sound_enabled,
    language_code,
    player_name_vars,  \* menu: the name entries (list of tk.StringVar)
    player_avatar_vars,  \* menu: the avatar choices (list of tk.StringVar)
    player_names,      \* player index -> name; <<>> when no game
    player_avatars     \* player index -> avatar path; <<>> when no game

menu_vars == <<menu_frame, player_var, folder_var, pairs_var,
               available_images, start_enabled, last_settings>>

game_vars == <<num_players, num_pairs, num_cards, cards, card_paths, buttons,
               flipped, matched, card_owner, player_scores, current_player,
               matched_paths>>

layout_vars == <<rows, cols, card_size, screen, bottom_border_percent>>

i18n_vars == <<i18n_messages, i18n_default, i18n_lang, t_result>>

settings_vars == <<sound_enabled, language_code, player_name_vars,
                   player_avatar_vars, player_names, player_avatars>>

vars == <<menu_frame, player_var, folder_var, pairs_var, available_images,
          start_enabled, last_settings, num_players, num_pairs, num_cards,
          cards, card_paths, buttons, flipped, matched, card_owner,
          player_scores, current_player, matched_paths, pending,
          finish_calls, dialog, last_op, rows, cols, card_size, screen,
          bottom_border_percent, i18n_messages, i18n_default, i18n_lang,
          t_result, sound_enabled, language_code, player_name_vars,
          player_avatar_vars, player_names, player_avatars, review_button,
          shortcut, deleted>>

\* Card indices of the current board.
Indices == 0..(num_cards - 1)

\* The elements of the flip selection.
FlippedSet == {flipped[k] : k \in 1..Len(flipped)}

\* The paths recorded in the gallery.
GalleryPaths == {matched_paths[k].path : k \in 1..Len(matched_paths)}

\* ------------------------------------------------------------------------
\* Menu
\* ------------------------------------------------------------------------

\* refresh_image_stats, first half: the image count of a folder.
CountImages(folder) ==
    IF folder # "" /\ isdir(folder) THEN Len(get_image_paths(folder)) ELSE 0

\* Variant of ClampPairs without the upper limit.
ClampPairs_no_upper_limit(pairs, available) ==
    IF available > 0 THEN Max(1, pairs) ELSE 0

\* update_start_state: the pair count after clamping to the image count.
ClampPairs(pairs, available) ==
    IF available > 0 THEN Max(1, Min(pairs, available)) ELSE 0

\* update_start_state: the player count after clamping to 1..6.
ClampPlayers(players) == Max(1, Min(players, PLAYER_COLORS_LEN))

\* normalize_avatar_path
normalize_avatar_path(path) ==
    IF path = "" THEN ""
    ELSE IF path \in DOMAIN avatar_lookup THEN path ELSE ""

\* Variant of ensure_player_name_vars that starts every entry with the
\* default name.
ensure_player_name_vars_defaults_only(name_vars, desired, last_names, lang) ==
    [k \in 1..Max(Len(name_vars), ClampPlayers(desired)) |->
        IF k <= Len(name_vars) THEN name_vars[k]
        ELSE default_name(i18n_messages, i18n_default, lang, k)]

\* ensure_player_name_vars(desired): entries are appended up to the clamped
\* player count; entry k starts with the k-th of the last names or, without
\* one, with the default name in the current language.  Lists of names and
\* avatars are sequences: player index idx is position idx + 1.
\* self.last_player_names is read at positions beyond the entries only,
\* where it holds the names of the last-settings record.
ensure_player_name_vars(name_vars, desired, last_names, lang) ==
    [k \in 1..Max(Len(name_vars), ClampPlayers(desired)) |->
        IF k <= Len(name_vars) THEN name_vars[k]
        ELSE LET last == IF k <= Len(last_names) THEN last_names[k] ELSE ""
             IN  IF last = ""
                 THEN default_name(i18n_messages, i18n_default, lang, k)
                 ELSE last]

\* ensure_player_avatar_vars(desired)
ensure_player_avatar_vars(avatar_vars, desired, last_avatars) ==
    [k \in 1..Max(Len(avatar_vars), ClampPlayers(desired)) |->
        IF k <= Len(avatar_vars) THEN avatar_vars[k]
        ELSE LET last == IF k <= Len(last_avatars)
                         THEN normalize_avatar_path(last_avatars[k]) ELSE ""
             IN  IF last = "" THEN default_avatar_path ELSE last]

\* update_start_state: whether the start button is enabled.
StartButtonNormal(folder, pairs, available) ==
    /\ folder # "" /\ isdir(folder)
    /\ pairs >= 1 /\ pairs <= available

\* update_start_state, run with the given values of the three variables.
update_start_state(players, folder, pairs) ==
    /\ player_var' = ClampPlayers(players)
    /\ pairs_var' = ClampPairs(pairs, available_images')
    /\ start_enabled' = StartButtonNormal(folder, pairs_var', available_images')

\* refresh_image_stats(folder_path): recount the images, pull the pair count
\* into 1..count (0 without images) and update the start button.
refresh_image_stats(folder_path, players, folder, pairs) ==
    /\ available_images' =
           CountImages(IF folder_path # "" THEN folder_path ELSE folder)
    /\ update_start_state(players, folder, pairs)

\* Variant of reset_game_state that keeps the gallery.
reset_game_state_keeps_gallery ==
    /\ num_pairs' = 0
    /\ num_cards' = 0
    /\ num_players' = 1
    /\ current_player' = 0
    /\ player_scores' = <<>>
    /\ card_owner' = <<>>
    /\ cards' = <<>>
    /\ buttons' = <<>>
    /\ card_paths' = <<>>
    /\ flipped' = <<>>
    /\ matched' = {}
    /\ UNCHANGED matched_paths
    /\ player_names' = <<>>
    /\ player_avatars' = <<>>
    /\ review_button' = None

\* reset_game_state
reset_game_state ==
    /\ num_pairs' = 0
    /\ num_cards' = 0
    /\ num_players' = 1
    /\ current_player' = 0
    /\ player_scores' = <<>>
    /\ card_owner' = <<>>
    /\ cards' = <<>>
    /\ buttons' = <<>>
    /\ card_paths' = <<>>
    /\ flipped' = <<>>
    /\ matched' = {}
    /\ matched_paths' = <<>>
    /\ player_names' = <<>>
    /\ player_avatars' = <<>>
    /\ review_button' = None

\* Variant of init_menu_state after which no menu is on screen.
init_menu_state_without_menu(settings) ==
    /\ language_code' = settings.language
    /\ i18n_lang' = I18n_set_language(i18n_messages, i18n_default, i18n_lang,
                                      settings.language)
    /\ folder_var' = settings.folder
    /\ refresh_image_stats(settings.folder, settings.players, settings.folder,
                           Max(1, settings.pairs))
    /\ sound_enabled' = settings.sound_enabled
    /\ player_name_vars' =
           ensure_player_name_vars(<<>>, settings.players, settings.names,
                                   i18n_lang')
    /\ player_avatar_vars' =
           ensure_player_avatar_vars(<<>>, settings.players,
               [k \in 1..Len(settings.avatars) |->
                   normalize_avatar_path(settings.avatars[k])])
    /\ menu_frame' = FALSE

\* init_menu_state followed by build_menu: the menu variables are prefilled
\* from the given last-settings record and the image statistics refreshed.
init_menu_state(settings) ==
    /\ language_code' = settings.language
    /\ i18n_lang' = I18n_set_language(i18n_messages, i18n_default, i18n_lang,
                                      settings.language)
    /\ folder_var' = settings.folder
    /\ refresh_image_stats(settings.folder, settings.players, settings.folder,
                           Max(1, settings.pairs))
    /\ sound_enabled' = settings.sound_enabled
    /\ player_name_vars' =
           ensure_player_name_vars(<<>>, settings.players, settings.names,
                                   i18n_lang')
    /\ player_avatar_vars' =
           ensure_player_avatar_vars(<<>>, settings.players,
               [k \in 1..Len(settings.avatars) |->
                   normalize_avatar_path(settings.avatars[k])])
    /\ menu_frame' = TRUE

\* return_to_menu: tear the game down (the pending timers are not cancelled)
\* and rebuild the menu from the last settings.
return_to_menu ==
    /\ UNCHANGED shortcut
    /\ UNCHANGED <<layout_vars, i18n_messages, i18n_default, t_result,
                   deleted>>
    /\ ~menu_frame
    /\ reset_game_state
    /\ init_menu_state(last_settings)
    /\ UNCHANGED <<last_settings, pending, finish_calls>>
    /\ dialog' = NoDialog
    /\ last_op' = [op |-> "return_to_menu", branch |-> "done"]

\* change_player_count(delta): the - and + buttons of the player row, held
\* back beyond `limit` players.
change_player_count_upto(delta, limit) ==
    /\ UNCHANGED <<review_button, shortcut>>
    /\ UNCHANGED <<layout_vars, i18n_vars, deleted>>
    /\ UNCHANGED <<sound_enabled, language_code, player_names, player_avatars>>
    /\ player_name_vars' =
           ensure_player_name_vars(player_name_vars, player_var + delta,
                                   last_settings.names, i18n_lang)
    /\ player_avatar_vars' =
           ensure_player_avatar_vars(player_avatar_vars, player_var + delta,
                                     last_settings.avatars)
    /\ menu_frame
    /\ IF delta < 0 THEN player_var > 1 ELSE player_var < PLAYER_COLORS_LEN
    /\ player_var + delta <= limit
    /\ UNCHANGED available_images
    /\ update_start_state(player_var + delta, folder_var, pairs_var)
    /\ UNCHANGED <<menu_frame, folder_var, last_settings>>
    /\ UNCHANGED game_vars
    /\ UNCHANGED <<pending, finish_calls>>
    /\ dialog' = NoDialog
    /\ last_op' = [op |-> "change_player_count", branch |-> "done"]

\* change_player_count with at most MaxPlayers players.
change_player_count(delta) == change_player_count_upto(delta, MaxPlayers)

\* change_pair_count(delta): the - and + buttons of the pair row.
change_pair_count(delta) ==
    /\ UNCHANGED <<review_button, shortcut>>
    /\ UNCHANGED <<layout_vars, i18n_vars, settings_vars, deleted>>
    /\ menu_frame
    /\ available_images > 0
    /\ IF delta < 0 THEN pairs_var > 1 ELSE pairs_var < available_images
    /\ UNCHANGED available_images
    /\ update_start_state(player_var, folder_var,
                          Max(1, Min(pairs_var + delta, available_images)))
    /\ UNCHANGED <<menu_frame, folder_var, last_settings>>
    /\ UNCHANGED game_vars
    /\ UNCHANGED <<pending, finish_calls>>
    /\ dialog' = NoDialog
    /\ last_op' = [op |-> "change_pair_count", branch |-> "done"]

\* browse_folder: a directory is picked in the file dialog.
browse_folder(selected) ==
    /\ UNCHANGED <<review_button, shortcut>>
    /\ UNCHANGED <<layout_vars, i18n_vars, settings_vars, deleted>>
    /\ menu_frame
    /\ selected # ""
    /\ folder_var' = selected
    /\ refresh_image_stats(selected, player_var, selected, pairs_var)
    /\ UNCHANGED <<menu_frame, last_settings>>
    /\ UNCHANGED game_vars
    /\ UNCHANGED <<pending, finish_calls>>
    /\ dialog' = NoDialog
    /\ last_op' = [op |-> "browse_folder", branch |-> "done"]

\* The folder entry is edited by hand: the write trace runs
\* update_start_state with the image count of the last refresh.
edit_folder(text) ==
    /\ UNCHANGED <<review_button, shortcut>>
    /\ UNCHANGED <<layout_vars, i18n_vars, settings_vars, deleted>>
    /\ menu_frame
    /\ text # folder_var
    /\ folder_var' = text
    /\ UNCHANGED available_images
    /\ update_start_state(player_var, text, pairs_var)
    /\ UNCHANGED <<menu_frame, last_settings>>
    /\ UNCHANGED game_vars
    /\ UNCHANGED <<pending, finish_calls>>
    /\ dialog' = NoDialog
    /\ last_op' = [op |-> "edit_folder", branch |-> "done"]

\* The folder entry loses the focus: refresh_image_stats().
folder_focus_out ==
    /\ UNCHANGED <<review_button, shortcut>>
    /\ UNCHANGED <<layout_vars, i18n_vars, settings_vars, deleted>>
    /\ menu_frame
    /\ refresh_image_stats("", player_var, folder_var, pairs_var)
    /\ UNCHANGED <<menu_frame, folder_var, last_settings>>
    /\ UNCHANGED game_vars
    /\ UNCHANGED <<pending, finish_calls>>
    /\ dialog' = NoDialog
    /\ last_op' = [op |-> "folder_focus_out", branch |-> "done"]

\* toggle_sound_enabled, the sound button of the settings dialog.
toggle_sound_enabled ==
    /\ UNCHANGED <<review_button, shortcut>>
    /\ menu_frame
    /\ sound_enabled' = ~sound_enabled
    /\ last_settings' = [last_settings EXCEPT !.sound_enabled = sound_enabled']
    /\ UNCHANGED <<language_code, player_name_vars, player_avatar_vars,
                   player_names, player_avatars>>
    /\ UNCHANGED <<menu_frame, player_var, folder_var, pairs_var,
                   available_images, start_enabled>>
    /\ UNCHANGED <<game_vars, pending, finish_calls>>
    /\ UNCHANGED <<layout_vars, i18n_vars, deleted>>
    /\ dialog' = NoDialog
    /\ last_op' = [op |-> "toggle_sound_enabled", branch |-> "done"]

\* set_language(code), from the language menu of the settings dialog, which
\* lists the loaded languages; the menu is built anew and build_menu ends with
\* refresh_image_stats.
set_language(code) ==
    /\ UNCHANGED <<review_button, shortcut>>
    /\ menu_frame
    /\ code \in DOMAIN i18n_messages
    /\ i18n_lang' = I18n_set_language(i18n_messages, i18n_default, i18n_lang,
                                      code)
    /\ language_code' = i18n_lang'
    /\ last_settings' = [last_settings EXCEPT !.language = language_code']
    /\ refresh_image_stats(folder_var, player_var, folder_var, pairs_var)
    /\ UNCHANGED <<menu_frame, folder_var>>
    /\ UNCHANGED <<sound_enabled, player_name_vars, player_avatar_vars,
                   player_names, player_avatars>>
    /\ UNCHANGED <<game_vars, pending, finish_calls>>
    /\ UNCHANGED <<layout_vars, i18n_messages, i18n_default, t_result,
                   deleted>>
    /\ dialog' = NoDialog
    /\ last_op' = [op |-> "set_language", branch |-> "done"]

\* The environment removes an image directory from the disk.
delete_folder(folder) ==
    /\ UNCHANGED <<review_button, shortcut>>
    /\ folder \in {"pics", "mixed"} \ deleted
    /\ Cardinality(deleted) < MaxDeleted
    /\ deleted' = deleted \cup {folder}
    /\ UNCHANGED <<menu_vars, game_vars, pending, finish_calls>>
    /\ UNCHANGED <<layout_vars, i18n_vars, settings_vars>>
    /\ dialog' = NoDialog
    /\ last_op' = [op |-> "environment", branch |-> "delete_folder"]

\* ------------------------------------------------------------------------
\* Board layout
\* ------------------------------------------------------------------------

\* Largest card count calculate_grid is applied to in SpecLayout.
MaxGridCards == 50

\* calculate_card_size: the margin taken off the screen, the least available
\* width and height, the fallback size and the largest size.
WINDOW_MARGIN == 160

MIN_AVAILABLE == 320

FALLBACK_CARD_SIZE == 60

MAX_CARD_SIZE == 240

\* DEFAULT_CONFIG["layout"]["bottom_border_fraction"] = 0.1, in percent.
DEFAULT_BOTTOM_BORDER_PERCENT == 10

\* The values of layout.bottom_border_fraction SpecLayout draws from, in
\* percent.  For these values the float product available_h * (1 - fraction)
\* truncates to the same integer as the exact product.
BorderPercents == {0, 10, 50, 100}

\* max(winfo_width, winfo_screenwidth) and max(winfo_height,
\* winfo_screenheight), and the width of the sidebar frame, as Tk can report
\* them.
ScreenWidths == {400, 1024, 1920}

ScreenHeights == {480, 600, 1080}

SidebarWidths == {0, 260}

Screens == [w : ScreenWidths, h : ScreenHeights, sidebar : SidebarWidths]

\* The display of the games of Spec.
DefaultScreen == [w |-> 1920, h |-> 1080, sidebar |-> 260]

\* math.sqrt followed by math.floor: the largest r with r * r <= n.
floor_sqrt(n) == CHOOSE r \in 0..n : r * r <= n /\ (r + 1) * (r + 1) > n

\* math.ceil(math.sqrt(n)); the float square root of an integer of this size
\* is an integer only for a perfect square.
ceil_sqrt(n) ==
    LET r == floor_sqrt(n) IN IF r * r = n THEN r ELSE r + 1

\* math.ceil(a / b) for a >= 0, b > 0
ceil_div(a, b) == IF a % b = 0 THEN a \div b ELSE (a \div b) + 1

\* int(a / b): truncation towards zero, b > 0
int_div(a, b) == IF a >= 0 THEN a \div b ELSE -((-a) \div b)

\* Variant of calculate_grid that rounds the row count down.
calculate_grid_floor_rows(total_cards) ==
    LET c == ceil_sqrt(total_cards)
    IN  [rows |-> total_cards \div c, cols |-> c]

\* calculate_grid
calculate_grid(total_cards) ==
    LET c == ceil_sqrt(total_cards)
    IN  [rows |-> ceil_div(total_cards, c), cols |-> c]

\* calculate_card_size: available_w
available_w(scr, sidebar_width) ==
    Max(MIN_AVAILABLE, scr.w - sidebar_width - WINDOW_MARGIN)

\* calculate_card_size: available_h after the bottom border is taken off.
available_h(scr, header_height, percent) ==
    int_div(Max(MIN_AVAILABLE, scr.h - header_height - WINDOW_MARGIN)
                * (100 - percent), 100)

\* calculate_card_size: int(min(size_w, size_h)); the two quotients are
\* compared as fractions.
base_size(r, c, aw, ah) ==
    IF aw * r <= ah * c THEN int_div(aw, c) ELSE int_div(ah, r)

\* Variant of calculate_card_size without the cap.
calculate_card_size_no_cap(r, c, header_height, sidebar_width, scr, percent) ==
    LET base == base_size(r, c, available_w(scr, sidebar_width),
                          available_h(scr, header_height, percent))
    IN  IF base <= 0 THEN FALLBACK_CARD_SIZE ELSE base

\* calculate_card_size
calculate_card_size(r, c, header_height, sidebar_width, scr, percent) ==
    LET base == base_size(r, c, available_w(scr, sidebar_width),
                          available_h(scr, header_height, percent))
    IN  Min(IF base <= 0 THEN FALLBACK_CARD_SIZE ELSE base, MAX_CARD_SIZE)

\* build_game_ui, lines 1471-1475: the grid and the card size of a board of
\* n cards on the current display.
build_layout(n) ==
    LET grid == calculate_grid(n)
    IN  /\ rows' = grid.rows
        /\ cols' = grid.cols
        /\ card_size' = calculate_card_size(grid.rows, grid.cols, 0,
                                            screen.sidebar, screen,
                                            bottom_border_percent)
        /\ UNCHANGED <<screen, bottom_border_percent>>

\* ------------------------------------------------------------------------
\* Deal
\* ------------------------------------------------------------------------

\* build_game_ui: the paths are shuffled and loaded until num_pairs images
\* have decoded; the result holds the decodable paths met before the loop
\* stopped, which can be any pairs-sized set of them.  With fewer decodable
\* paths than pairs, all of them are loaded and the deal fails.
LoadedPools(image_paths, pairs) ==
    LET good == {image_paths[k] : k \in
                    {j \in 1..Len(image_paths) : load_image(image_paths[j]) # None}}
    IN  IF Cardinality(good) < pairs THEN {good}
        ELSE {pool \in SUBSET good : Cardinality(pool) = pairs}

\* Variant of prepare_cards that draws the image of every card from the
\* pool independently.
prepare_cards_independent_draws(image_pool) ==
    [0..(2 * Cardinality(image_pool) - 1) -> image_pool]

\* prepare_cards: every pool entry (photo, path) is put on two cards and the
\* cards are shuffled, photo and path together; any order can come out.
prepare_cards(image_pool) ==
    {board \in [0..(2 * Cardinality(image_pool) - 1) -> image_pool] :
        \A path \in image_pool :
            Cardinality({i \in DOMAIN board : board[i] = path}) = 2}

\* Variant of setup_scoreboard that packs the gallery button at once.
setup_scoreboard_packed == [mapped |-> TRUE, state |-> "disabled"]

\* setup_scoreboard: the gallery button is created disabled and is not
\* packed into the sidebar.
setup_scoreboard == [mapped |-> FALSE, state |-> "disabled"]

\* enable_review_button: the button is packed; it is enabled when the
\* gallery holds an entry.
enable_review_button(button, gallery) ==
    IF button = None THEN None
    ELSE [mapped |-> TRUE,
          state |-> IF gallery # <<>> THEN "normal" ELSE "disabled"]

\* create_board: one button per card, showing the card back.
create_board(n) == [i \in 0..(n - 1) |-> [image |-> "back", state |-> "normal"]]

\* start_game: the names of the players of the game; an entry that is empty
\* after strip() stands for the default name.
game_names(name_vars, players, lang) ==
    [k \in 1..players |->
        IF strip(name_vars[k]) = ""
        THEN default_name(i18n_messages, i18n_default, lang, k)
        ELSE strip(name_vars[k])]

\* start_game: the avatars of the players of the game.
game_avatars(avatar_vars, players) ==
    [k \in 1..players |->
        IF normalize_avatar_path(avatar_vars[k]) = ""
        THEN default_avatar_path
        ELSE normalize_avatar_path(avatar_vars[k])]

\* start_game, with build_game_ui.
start_game ==
    /\ UNCHANGED shortcut
    /\ menu_frame
    /\ start_enabled
    /\ UNCHANGED <<i18n_messages, i18n_default, t_result, deleted>>
    /\ LET folder == folder_var
           image_paths == get_image_paths(folder)
           players == ClampPlayers(player_var)
           names == game_names(player_name_vars, players, i18n_lang)
           avatars == game_avatars(player_avatar_vars, players)
           settings == [players |-> players, folder |-> folder,
                        pairs |-> pairs_var, names |-> names,
                        avatars |-> avatars,
                        sound_enabled |-> sound_enabled,
                        language |-> language_code]
       IN
       IF folder = "" \/ ~isdir(folder) THEN
           /\ dialog' = [kind |-> "invalid_folder"]
           /\ last_op' = [op |-> "start_game", branch |-> "invalid_folder"]
           /\ UNCHANGED <<menu_vars, game_vars, pending, finish_calls>>
           /\ UNCHANGED <<layout_vars, settings_vars, i18n_lang>>
           /\ UNCHANGED review_button
       ELSE IF Len(image_paths) = 0 THEN
           /\ dialog' = [kind |-> "no_images"]
           /\ last_op' = [op |-> "start_game", branch |-> "no_images"]
           /\ refresh_image_stats(folder, player_var, folder_var, pairs_var)
           /\ UNCHANGED <<menu_frame, folder_var, last_settings>>
           /\ UNCHANGED <<game_vars, pending, finish_calls>>
           /\ UNCHANGED <<layout_vars, settings_vars, i18n_lang>>
           /\ UNCHANGED review_button
       ELSE IF pairs_var < 1 \/ pairs_var > Len(image_paths) THEN
           /\ dialog' = [kind |-> "invalid_pair_count",
                         max_pairs |-> Len(image_paths)]
           /\ last_op' = [op |-> "start_game", branch |-> "invalid_pair_count"]
           /\ refresh_image_stats(folder, player_var, folder_var, pairs_var)
           /\ UNCHANGED <<menu_frame, folder_var, last_settings>>
           /\ UNCHANGED <<game_vars, pending, finish_calls>>
           /\ UNCHANGED <<layout_vars, settings_vars, i18n_lang>>
           /\ UNCHANGED review_button
       ELSE
           /\ last_settings' = settings
           /\ finish_calls' = 0
           /\ UNCHANGED pending
           /\ build_layout(pairs_var * 2)
           /\ \E image_pool \in LoadedPools(image_paths, pairs_var) :
                IF Cardinality(image_pool) < pairs_var THEN
                    \* build_game_ui gives up and calls return_to_menu
                    /\ dialog' = [kind |-> "loading_error",
                                  count |-> Cardinality(image_pool)]
                    /\ last_op' = [op |-> "start_game",
                                   branch |-> "loading_error"]
                    /\ reset_game_state
                    /\ init_menu_state(settings)
                ELSE
                    \E board \in prepare_cards(image_pool) :
                        /\ dialog' = NoDialog
                        /\ last_op' = [op |-> "start_game",
                                       branch |-> "started"]
                        /\ menu_frame' = FALSE
                        /\ available_images' = Len(image_paths)
                        /\ UNCHANGED <<player_var, folder_var, pairs_var,
                                       start_enabled>>
                        /\ UNCHANGED <<sound_enabled, language_code,
                                       i18n_lang>>
                        /\ player_name_vars' =
                               [k \in 1..Len(player_name_vars) |->
                                   IF k <= players
                                      /\ strip(player_name_vars[k]) = ""
                                   THEN names[k]
                                   ELSE player_name_vars[k]]
                        /\ player_avatar_vars' =
                               [k \in 1..Len(player_avatar_vars) |->
                                   IF k <= players
                                      /\ normalize_avatar_path(
                                             player_avatar_vars[k]) = ""
                                   THEN avatars[k]
                                   ELSE player_avatar_vars[k]]
                        /\ player_names' = names
                        /\ player_avatars' = avatars
                        /\ num_pairs' = pairs_var
                        /\ num_cards' = pairs_var * 2
                        /\ num_players' = players
                        /\ current_player' = 0
                        /\ player_scores' = [i \in 0..(players - 1) |-> 0]
                        /\ card_owner' = <<>>
                        /\ cards' = [i \in DOMAIN board |->
                                        load_image(board[i])]
                        /\ card_paths' = board
                        /\ buttons' = create_board(pairs_var * 2)
                        /\ flipped' = <<>>
                        /\ matched' = {}
                        /\ UNCHANGED matched_paths
                        /\ review_button' = setup_scoreboard

\* ------------------------------------------------------------------------
\* Match state machine
\* ------------------------------------------------------------------------

\* Variant of flip_rejected without the test "idx in self.flipped".
flip_rejected_no_selection_test(idx, selection, done) ==
    \/ idx \in done
    \/ Len(selection) >= 2

\* Variant of flip_rejected without the test "len(self.flipped) >= 2".
flip_rejected_no_length_test(idx, selection, done) ==
    \/ idx \in done
    \/ \E k \in 1..Len(selection) : selection[k] = idx

\* flip_card, the two early returns: the card is matched or already in the
\* selection, or the selection is full.
flip_rejected(idx, selection, done) ==
    \/ idx \in done
    \/ \E k \in 1..Len(selection) : selection[k] = idx
    \/ Len(selection) >= 2

\* Variant of flip_card that takes the image of the card off the board when
\* the button shows it.
flip_card_takes_image(idx) ==
    /\ UNCHANGED <<review_button, shortcut>>
    /\ UNCHANGED <<layout_vars, i18n_vars, settings_vars, deleted>>
    /\ ~menu_frame
    /\ idx \in Indices
    /\ (~flip_rejected(idx, flipped, matched) /\ Len(flipped) = 1)
           => pending < MaxPending
    /\ dialog' = NoDialog
    /\ UNCHANGED <<menu_vars, finish_calls>>
    /\ UNCHANGED <<num_players, num_pairs, num_cards, card_paths,
                   matched, card_owner, player_scores, current_player,
                   matched_paths>>
    /\ IF flip_rejected(idx, flipped, matched) THEN
           /\ last_op' = [op |-> "flip_card", branch |-> "rejected"]
           /\ UNCHANGED <<cards, buttons, flipped, pending>>
       ELSE
           /\ last_op' = [op |-> "flip_card", branch |-> "accepted"]
           /\ cards' = [cards EXCEPT ![idx] = None]
           /\ buttons' = [buttons EXCEPT ![idx].image = "face"]
           /\ flipped' = Append(flipped, idx)
           /\ pending' = IF Len(flipped') = 2 THEN pending + 1 ELSE pending

\* flip_card(idx): a card button is pressed.  The handler is modelled for
\* every card of the board, the matched ones included, although check_match
\* disables their buttons: the first early return of the code covers them.
\* The second flip of a selection is held back while MaxPending timers are
\* outstanding.
flip_card(idx) ==
    /\ UNCHANGED <<review_button, shortcut>>
    /\ UNCHANGED <<layout_vars, i18n_vars, settings_vars, deleted>>
    /\ ~menu_frame
    /\ idx \in Indices
    /\ (~flip_rejected(idx, flipped, matched) /\ Len(flipped) = 1)
           => pending < MaxPending
    /\ dialog' = NoDialog
    /\ UNCHANGED <<menu_vars, finish_calls>>
    /\ UNCHANGED <<num_players, num_pairs, num_cards, cards, card_paths,
                   matched, card_owner, player_scores, current_player,
                   matched_paths>>
    /\ IF flip_rejected(idx, flipped, matched) THEN
           /\ last_op' = [op |-> "flip_card", branch |-> "rejected"]
           /\ UNCHANGED <<buttons, flipped, pending>>
       ELSE
           /\ last_op' = [op |-> "flip_card", branch |-> "accepted"]
           /\ buttons' = [buttons EXCEPT ![idx].image = "face"]
           /\ flipped' = Append(flipped, idx)
           /\ pending' = IF Len(flipped') = 2 THEN pending + 1 ELSE pending

\* Variant of next_player without the modulo.
next_player_no_wrap(current, players) ==
    IF players <= 1 THEN current ELSE current + 1

\* next_player: the player after the current one.
next_player(current, players) ==
    IF players <= 1 THEN current ELSE (current + 1) % players

RECURSIVE WinnersFirstOnly(_, _, _)
\* Variant of Winners that stops at the first player with the best score.
WinnersFirstOnly(scores, best, n) ==
    IF n = 0 THEN <<>>
    ELSE IF WinnersFirstOnly(scores, best, n - 1) # <<>>
         THEN WinnersFirstOnly(scores, best, n - 1)
         ELSE IF scores[n - 1] = best THEN <<n>> ELSE <<>>

RECURSIVE Winners(_, _, _)
\* finish_game: [i + 1 for i, score in enumerate(scores) if score == best],
\* over the first n players.
Winners(scores, best, n) ==
    IF n = 0 THEN <<>>
    ELSE IF scores[n - 1] = best
         THEN Append(Winners(scores, best, n - 1), n)
         ELSE Winners(scores, best, n - 1)

\* finish_game: the message box that reports the result.  names are the
\* player indices whose names the header shows, pairs the score it shows.
finish_game(scores, players) ==
    IF players = 1 THEN
        [kind |-> "single_player_win", names |-> <<0>>]
    ELSE
        LET best_score == MaxScore(scores, players)
            winners == Winners(scores, best_score, players)
        IN  IF Len(winners) = 1 THEN
                [kind |-> "multi_player_header_single",
                 names |-> <<winners[1] - 1>>,
                 pairs |-> best_score,
                 scoreboard |-> scores]
            ELSE
                [kind |-> "multi_player_header_multi",
                 names |-> [k \in 1..Len(winners) |-> winners[k] - 1],
                 pairs |-> best_score,
                 scoreboard |-> scores]

\* Variant of mark_matched that adds only the first card of the selection.
mark_matched_first_only(done, selection) ==
    done \cup {selection[1]}

\* check_match, on a match: self.matched.update(self.flipped)
mark_matched(done, selection) ==
    done \cup {selection[k] : k \in 1..Len(selection)}

\* Variant of set_owner that stores the owner of the first card only.
set_owner_first_only(owner, i1, i2, player) ==
    [i \in (DOMAIN owner) \cup {i1} |->
        IF i = i1 THEN player ELSE owner[i]]

\* check_match, on a match: both cards get the current player as owner.
set_owner(owner, i1, i2, player) ==
    [i \in (DOMAIN owner) \cup {i1, i2} |->
        IF i \in {i1, i2} THEN player ELSE owner[i]]

\* Variant of credit that always credits the first player.
credit_first_player(scores, player) == [scores EXCEPT ![0] = @ + 1]

\* Variant of credit that scores once per card of the pair.
credit_per_card(scores, player) == [scores EXCEPT ![player] = @ + 2]

\* check_match, on a match: the current player's score goes up by one.
credit(scores, player) == [scores EXCEPT ![player] = @ + 1]

\* Variant of record_match that appends one entry per card of the pair
\* without looking the path up in the gallery.
record_match_per_card(gallery, paths, i1, player) ==
    IF DOMAIN paths # {} /\ paths[i1] # None
    THEN gallery \o <<[path |-> paths[i1], player |-> player],
                      [path |-> paths[i1], player |-> player]>>
    ELSE gallery

\* Variant of record_match that stores the 1-based player number.
record_match_one_based(gallery, paths, i1, player) ==
    IF DOMAIN paths # {}
       /\ paths[i1] # None
       /\ ~\E k \in 1..Len(gallery) : gallery[k].path = paths[i1]
    THEN Append(gallery, [path |-> paths[i1], player |-> player + 1])
    ELSE gallery

\* check_match, on a match: the path of the first card is appended to the
\* gallery with the current player, unless the gallery holds the path.
record_match(gallery, paths, i1, player) ==
    IF DOMAIN paths # {}
       /\ paths[i1] # None
       /\ ~\E k \in 1..Len(gallery) : gallery[k].path = paths[i1]
    THEN Append(gallery, [path |-> paths[i1], player |-> player])
    ELSE gallery

\* check_match, on a match: the buttons of the pair are disabled.
disable_buttons(btns, selection) ==
    [i \in DOMAIN btns |->
        IF \E k \in 1..Len(selection) : selection[k] = i
        THEN [btns[i] EXCEPT !.state = "disabled"]
        ELSE btns[i]]

\* Variant of show_back that turns only the first card of the selection.
show_back_first_only(btns, selection) ==
    [i \in DOMAIN btns |->
        IF selection[1] = i
        THEN [btns[i] EXCEPT !.image = "back"]
        ELSE btns[i]]

\* check_match, on a mismatch: both buttons show the card back again.
show_back(btns, selection) ==
    [i \in DOMAIN btns |->
        IF \E k \in 1..Len(selection) : selection[k] = i
        THEN [btns[i] EXCEPT !.image = "back"]
        ELSE btns[i]]

\* Variant of game_over that compares with the number of pairs.
game_over_pairs(done, n) == 2 * Cardinality(done) >= n

\* check_match, last test: every card of the board is matched.
game_over(done, n) == Cardinality(done) = n

\* The callbacks that root.after holds for a selection that is gone.  All
\* callbacks have the same delay and fire in the order of their scheduling;
\* a full selection scheduled the youngest one when its second card was
\* flipped, every other outstanding callback is older than the selection.
StaleTimers == pending - (IF Len(flipped) = 2 THEN 1 ELSE 0)

\* Variant of reset_selection that leaves the selection as it is.
reset_selection_skipped(selection) == selection

\* self.flipped = [] at the end of an evaluation.
reset_selection(selection) == <<>>

\* Variant of check_match whose early return passes the turn on.
check_match_early_return_passes_turn ==
    /\ UNCHANGED shortcut
    /\ UNCHANGED <<layout_vars, i18n_vars, settings_vars, deleted>>
    /\ pending > 0
    /\ pending' = pending - 1
    /\ UNCHANGED menu_vars
    /\ UNCHANGED <<num_players, num_pairs, num_cards, cards, card_paths>>
    /\ IF Len(flipped) # 2 THEN
           /\ last_op' = [op |-> "check_match", branch |-> "ignored"]
           /\ dialog' = NoDialog
           /\ current_player' = next_player(current_player, num_players)
           /\ UNCHANGED <<buttons, flipped, matched, card_owner,
                          player_scores, matched_paths, finish_calls,
                          review_button>>
       ELSE
           LET i1 == flipped[1]
               i2 == flipped[2]
           IN
           /\ IF cards[i1] = cards[i2] THEN
                  /\ last_op' = [op |-> "check_match", branch |-> "match"]
                  /\ matched' = mark_matched(matched, flipped)
                  /\ card_owner' =
                         set_owner(card_owner, i1, i2, current_player)
                  /\ buttons' = disable_buttons(buttons, flipped)
                  /\ player_scores' = credit(player_scores, current_player)
                  /\ matched_paths' =
                         record_match(matched_paths, card_paths, i1,
                                      current_player)
                  /\ UNCHANGED current_player
              ELSE
                  /\ last_op' = [op |-> "check_match", branch |-> "mismatch"]
                  /\ buttons' = show_back(buttons, flipped)
                  /\ current_player' = next_player(current_player, num_players)
                  /\ UNCHANGED <<matched, card_owner, player_scores,
                                 matched_paths>>
           /\ flipped' = reset_selection(flipped)
           /\ IF game_over(matched', num_cards) THEN
                  /\ finish_calls' = finish_calls + 1
                  /\ review_button' =
                         enable_review_button(review_button, matched_paths')
                  /\ dialog' = finish_game(player_scores', num_players)
              ELSE
                  /\ UNCHANGED <<finish_calls, review_button>>
                  /\ dialog' = NoDialog

\* check_match: the deferred callback of the second flip fires.
check_match ==
    /\ UNCHANGED shortcut
    /\ UNCHANGED <<layout_vars, i18n_vars, settings_vars, deleted>>
    /\ pending > 0
    /\ pending' = pending - 1
    /\ UNCHANGED menu_vars
    /\ UNCHANGED <<num_players, num_pairs, num_cards, cards, card_paths>>
    /\ IF Len(flipped) # 2 THEN
           /\ last_op' = [op |-> "check_match", branch |-> "ignored"]
           /\ dialog' = NoDialog
           /\ UNCHANGED <<buttons, flipped, matched, card_owner,
                          player_scores, current_player, matched_paths,
                          finish_calls, review_button>>
       ELSE
           LET i1 == flipped[1]
               i2 == flipped[2]
           IN
           /\ IF cards[i1] = cards[i2] THEN
                  /\ last_op' = [op |-> "check_match", branch |-> "match"]
                  /\ matched' = mark_matched(matched, flipped)
                  /\ card_owner' =
                         set_owner(card_owner, i1, i2, current_player)
                  /\ buttons' = disable_buttons(buttons, flipped)
                  /\ player_scores' = credit(player_scores, current_player)
                  /\ matched_paths' =
                         record_match(matched_paths, card_paths, i1,
                                      current_player)
                  /\ UNCHANGED current_player
              ELSE
                  /\ last_op' = [op |-> "check_match", branch |-> "mismatch"]
                  /\ buttons' = show_back(buttons, flipped)
                  /\ current_player' = next_player(current_player, num_players)
                  /\ UNCHANGED <<matched, card_owner, player_scores,
                                 matched_paths>>
           /\ flipped' = reset_selection(flipped)
           /\ IF game_over(matched', num_cards) THEN
                  /\ finish_calls' = finish_calls + 1
                  /\ review_button' =
                         enable_review_button(review_button, matched_paths')
                  /\ dialog' = finish_game(player_scores', num_players)
              ELSE
                  /\ UNCHANGED <<finish_calls, review_button>>
                  /\ dialog' = NoDialog

\* ------------------------------------------------------------------------
\* Specification
\* ------------------------------------------------------------------------

\* load_config and the display: the configured bottom border and what Tk
\* reports of the screen; no board has been laid out.
load_config(percent, scr) ==
    /\ bottom_border_percent = percent
    /\ screen = scr
    /\ rows = 0
    /\ cols = 0
    /\ card_size = 0

\* I18N = I18n(LOCALE_DIR, default) followed by
\* I18N.set_language(CONFIG_LANGUAGE), for the catalogs found on disk.
I18n_init(messages, default, config_language) ==
    /\ i18n_messages = messages
    /\ i18n_default = I18n_default(messages, constructor_default(default))
    /\ i18n_lang =
           I18n_set_language(messages, i18n_default,
               I18n_set_language(messages, i18n_default,
                                 constructor_default(default), i18n_default),
               config_language)

\* MemoryApp.__init__, the menu: the last-settings record holds one player,
\* the configured default folder, one pair, no names and avatars, sound on
\* and the language of I18N; the menu is built from the record.
menu_init(default_folder) ==
    /\ last_settings = [players |-> 1, folder |-> default_folder,
                        pairs |-> 1, names |-> <<>>, avatars |-> <<>>,
                        sound_enabled |-> TRUE, language |-> i18n_lang]
    /\ sound_enabled = TRUE
    /\ language_code = i18n_lang
    /\ player_name_vars = ensure_player_name_vars(<<>>, 1, <<>>, i18n_lang)
    /\ player_avatar_vars = ensure_player_avatar_vars(<<>>, 1, <<>>)
    /\ menu_frame = TRUE
    /\ player_var = 1
    /\ folder_var = default_folder
    /\ available_images = CountImages(default_folder)
    /\ pairs_var = ClampPairs(1, available_images)
    /\ start_enabled =
           StartButtonNormal(default_folder, pairs_var, available_images)
    /\ pending = 0
    /\ finish_calls = 0
    /\ dialog = NoDialog
    /\ last_op = [op |-> "__init__", branch |-> "done"]

\* MemoryApp.__init__, the game state as reset_game_state leaves it.
no_game ==
    /\ num_pairs = 0
    /\ num_cards = 0
    /\ num_players = 1
    /\ current_player = 0
    /\ player_scores = <<>>
    /\ card_owner = <<>>
    /\ player_names = <<>>
    /\ player_avatars = <<>>
    /\ review_button = None
    /\ cards = <<>>
    /\ buttons = <<>>
    /\ card_paths = <<>>
    /\ flipped = <<>>
    /\ matched = {}
    /\ matched_paths = <<>>

\* The program after construction, on the display and with the catalogs of
\* the fixture; the configured image folder is any of the folder texts.
Init ==
    \E default_folder \in Folders :
        /\ deleted = {}
        /\ load_config(DEFAULT_BOTTOM_BORDER_PERCENT, DefaultScreen)
        /\ I18n_init(AppLocales, "de", "de")
        /\ t_result = None
        /\ menu_init(default_folder)
        /\ no_game
        /\ shortcut = ShortcutIdle

Next ==
    \/ \E delta \in {-1, 1} : change_player_count(delta)
    \/ \E delta \in {-1, 1} : change_pair_count(delta)
    \/ \E selected \in Folders : browse_folder(selected)
    \/ \E text \in Folders : edit_folder(text)
    \/ folder_focus_out
    \/ start_game
    \/ return_to_menu
    \/ \E idx \in Indices : flip_card(idx)
    \/ check_match

Spec == Init /\ [][Next]_vars

\* The menu with every player count the + button reaches, and a disk that
\* changes; games are started and left, no card is flipped.
NextCounts ==
    \/ \E delta \in {-1, 1} :
           change_player_count_upto(delta, PLAYER_COLORS_LEN)
    \/ \E delta \in {-1, 1} : change_pair_count(delta)
    \/ \E selected \in Folders : browse_folder(selected)
    \/ \E text \in Folders : edit_folder(text)
    \/ folder_focus_out
    \/ \E folder \in Directories : delete_folder(folder)
    \/ start_game
    \/ return_to_menu

SpecCounts == Init /\ [][NextCounts]_vars

\* The program constructed on the folder "pics".
InitLive == Init /\ folder_var = "pics"

\* The pair count of the menu and the handlers of a game; the player count
\* stays at the one player of the default settings.
NextLive ==
    \/ \E delta \in {-1, 1} : change_pair_count(delta)
    \/ start_game
    \/ return_to_menu
    \/ \E idx \in Indices : flip_card(idx)
    \/ check_match

\* The program on a Tk event loop that runs every scheduled callback: a
\* check_match that is due is not put off for ever.
SpecLive == InitLive /\ [][NextLive]_vars /\ WF_vars(check_match)

\* The menu with the settings dialog and a disk that changes: the handlers
\* of the menu, start_game and return_to_menu, without the flips of a game.
NextMenu ==
    \/ \E delta \in {-1, 1} : change_player_count(delta)
    \/ \E delta \in {-1, 1} : change_pair_count(delta)
    \/ \E selected \in Folders : browse_folder(selected)
    \/ \E text \in Folders : edit_folder(text)
    \/ folder_focus_out
    \/ toggle_sound_enabled
    \/ \E code \in {"de", "en"} : set_language(code)
    \/ \E folder \in Directories : delete_folder(folder)
    \/ start_game
    \/ return_to_menu

SpecMenu == Init /\ [][NextMenu]_vars

\* ------------------------------------------------------------------------
\* finish_game on every final score table
\* ------------------------------------------------------------------------

\* finish_game reads num_players and player_scores only.  In a game the
\* player who matches the last but one pair keeps the turn and is left with
\* one pair to flip, so the last two pairs go to one player; a tie for the
\* best score therefore needs four pairs, more than the boards of Spec hold.
\* SpecFinish applies finish_game to every score table a finished game of up
\* to MaxFinalPairs pairs can end with.

\* Largest number of pairs of the finished games of SpecFinish.
MaxFinalPairs == 4

\* The score tables of a finished game: the scores add up to the number of
\* pairs; a single pair goes to player 0, who never loses the turn; of two
\* or more pairs, some player holds the last two.
FinalScores(players, pairs) ==
    {scores \in [0..(players - 1) -> 0..pairs] :
        /\ SumScores(scores, players) = pairs
        /\ pairs = 1 => scores[0] = 1
        /\ pairs >= 2 => \E p \in 0..(players - 1) : scores[p] >= 2}

\* The inputs of finish_game; everything else as reset_game_state leaves it.
InitFinish ==
    \E players \in 1..PLAYER_COLORS_LEN, pairs \in 1..MaxFinalPairs :
        \E scores \in FinalScores(players, pairs) :
            /\ num_players = players
            /\ num_pairs = pairs
            /\ num_cards = 2 * pairs
            /\ player_scores = scores
            /\ current_player = 0
            /\ deleted = {}
            /\ load_config(DEFAULT_BOTTOM_BORDER_PERCENT, DefaultScreen)
            /\ I18n_init(AppLocales, "de", "de")
            /\ t_result = None
            /\ sound_enabled = TRUE
            /\ language_code = i18n_lang
            /\ player_name_vars =
                   ensure_player_name_vars(<<>>, players, <<>>, i18n_lang)
            /\ player_avatar_vars =
                   ensure_player_avatar_vars(<<>>, players, <<>>)
            /\ player_names = player_name_vars
            /\ player_avatars = player_avatar_vars
            /\ last_settings = [players |-> players, folder |-> "",
                                pairs |-> pairs, names |-> player_names,
                                avatars |-> player_avatars,
                                sound_enabled |-> TRUE,
                                language |-> i18n_lang]
            /\ menu_frame = FALSE
            /\ player_var = players
            /\ folder_var = ""
            /\ available_images = 0
            /\ pairs_var = pairs
            /\ start_enabled = FALSE
            /\ card_owner = <<>>
            /\ cards = <<>>
            /\ buttons = <<>>
            /\ card_paths = <<>>
            /\ flipped = <<>>
            /\ matched = {}
            /\ matched_paths = <<>>
            /\ review_button = setup_scoreboard
            /\ shortcut = ShortcutIdle
            /\ pending = 0
            /\ finish_calls = 0
            /\ dialog = NoDialog
            /\ last_op = [op |-> "check_match", branch |-> "match"]

\* The call of finish_game at the end of check_match.
call_finish_game ==
    /\ UNCHANGED shortcut
    /\ UNCHANGED <<layout_vars, i18n_vars, settings_vars, deleted>>
    /\ finish_calls = 0
    /\ finish_calls' = 1
    /\ review_button' = enable_review_button(review_button, matched_paths)
    /\ dialog' = finish_game(player_scores, num_players)
    /\ last_op' = [op |-> "finish_game", branch |-> "done"]
    /\ UNCHANGED menu_vars
    /\ UNCHANGED game_vars
    /\ UNCHANGED pending

NextFinish == call_finish_game

SpecFinish == InitFinish /\ [][NextFinish]_vars

\* ------------------------------------------------------------------------
\* The board layout on every card count and display
\* ------------------------------------------------------------------------

\* calculate_grid and calculate_card_size read the card count, the display
\* and the configured bottom border only.  SpecLayout applies the layout
\* lines of build_game_ui to every card count up to MaxGridCards on every
\* display and bottom border of the fixture.
InitLayout ==
    \E n \in 1..MaxGridCards, scr \in Screens, percent \in BorderPercents :
        /\ deleted = {}
        /\ load_config(percent, scr)
        /\ I18n_init(AppLocales, "de", "de")
        /\ t_result = None
        /\ menu_init("")
        /\ num_cards = n
        /\ num_pairs = 0
        /\ num_players = 1
        /\ current_player = 0
        /\ player_scores = <<>>
        /\ card_owner = <<>>
        /\ player_names = <<>>
        /\ player_avatars = <<>>
        /\ cards = <<>>
        /\ buttons = <<>>
        /\ card_paths = <<>>
        /\ flipped = <<>>
        /\ matched = {}
        /\ matched_paths = <<>>
        /\ review_button = setup_scoreboard
        /\ shortcut = ShortcutIdle

\* build_game_ui, lines 1471-1475, for self.num_cards cards.
layout_call ==
    /\ UNCHANGED <<review_button, shortcut>>
    /\ last_op.op # "build_game_ui"
    /\ build_layout(num_cards)
    /\ last_op' = [op |-> "build_game_ui", branch |-> "layout"]
    /\ UNCHANGED <<menu_vars, game_vars, pending, finish_calls, dialog>>
    /\ UNCHANGED <<i18n_vars, settings_vars, deleted>>

NextLayout == layout_call

SpecLayout == InitLayout /\ [][NextLayout]_vars

\* ------------------------------------------------------------------------
\* I18n.t on every catalog
\* ------------------------------------------------------------------------

\* The keys t is called with.
Keys == {"", "a", "a.c", "b"}

\* The strings the catalogs of SpecI18n store under "a" and under "a.c".
Text(lang, key) ==
    IF key = "a" THEN (IF lang = "de" THEN "Titel" ELSE "Title")
    ELSE (IF lang = "de" THEN "Unter" ELSE "Sub")

\* What a catalog can hold under the part "a": nothing, a string, a boolean,
\* an empty mapping, or a mapping that holds a string under "c".
EntryKinds == {"none", "str", "bool", "dict", "dict_str"}

Catalog(lang, kind) ==
    IF kind = "none" THEN Dict(<<>>)
    ELSE Dict([p \in {"a"} |->
            CASE kind = "str" -> Str(Text(lang, "a"))
              [] kind = "bool" -> Bool("True")
              [] kind = "dict" -> Dict(<<>>)
              [] OTHER -> Dict([q \in {"c"} |-> Str(Text(lang, "a.c"))])])

\* The catalogs _load_locales can find: any of the two languages, each with
\* any of the entries.
MessageSets ==
    UNION {{[lang \in L |-> Catalog(lang, kinds[lang])] :
               kinds \in [L -> EntryKinds]} : L \in SUBSET {"de", "en"}}

\* The program after construction, for every set of catalogs and every
\* configured language.
InitI18n ==
    \E messages \in MessageSets, config_language \in {"de", "en", UnknownLanguage} :
        /\ deleted = {}
        /\ load_config(DEFAULT_BOTTOM_BORDER_PERCENT, DefaultScreen)
        /\ I18n_init(messages, "de", config_language)
        /\ t_result = None
        /\ menu_init("")
        /\ no_game
        /\ shortcut = ShortcutIdle

\* A call of I18N.t(key); the key and the returned string are kept.
I18N_t(key) ==
    /\ UNCHANGED <<review_button, shortcut>>
    /\ t_result' = [key |-> key,
                    value |-> I18n_t(i18n_messages, i18n_default, i18n_lang,
                                     key)]
    /\ last_op' = [op |-> "I18n.t", branch |-> "done"]
    /\ UNCHANGED <<menu_vars, game_vars, pending, finish_calls, dialog>>
    /\ UNCHANGED <<layout_vars, settings_vars, deleted>>
    /\ UNCHANGED <<i18n_messages, i18n_default, i18n_lang>>

NextI18n == \E key \in Keys : I18N_t(key)

SpecI18n == InitI18n /\ [][NextI18n]_vars

\* ------------------------------------------------------------------------
\* I18n.set_language on every set of locale files
\* ------------------------------------------------------------------------

\* The sets of locale files _load_locales can find; a file is stored under
\* path.stem.lower().
LocaleSets ==
    {[lang \in {lower_code(stem) : stem \in stems} |-> Catalog(lang, "str")] :
        stems \in SUBSET {"de", "en", "fr "}}

\* The codes set_language is asked for.
RequestCodes == {"", "de", "en", "EN", " de ", "fr", "fr "}

\* An I18n object after construction and the set_language of the configured
\* language.
InitLang ==
    \E messages \in LocaleSets, default \in {"", "de", "EN"},
       config_language \in RequestCodes :
        /\ deleted = {}
        /\ load_config(DEFAULT_BOTTOM_BORDER_PERCENT, DefaultScreen)
        /\ I18n_init(messages, default, config_language)
        /\ t_result = None
        /\ menu_init("")
        /\ no_game
        /\ shortcut = ShortcutIdle

\* A call of I18N.set_language(code); the code and the returned boolean are
\* kept.
I18N_set_language(code) ==
    /\ i18n_lang' = I18n_set_language(i18n_messages, i18n_default, i18n_lang,
                                      code)
    /\ last_op' = [op |-> "I18n.set_language",
                   branch |-> IF i18n_lang' # i18n_lang THEN "True"
                              ELSE "False",
                   code |-> code]
    /\ UNCHANGED <<menu_vars, game_vars, pending, finish_calls, dialog>>
    /\ UNCHANGED <<layout_vars, settings_vars, deleted>>
    /\ UNCHANGED <<i18n_messages, i18n_default, t_result>>
    /\ UNCHANGED <<review_button, shortcut>>

NextLang == \E code \in RequestCodes : I18N_set_language(code)

SpecLang == InitLang /\ [][NextLang]_vars

\* ------------------------------------------------------------------------
\* The shortcut utility (src/create_shortcut.py)
\* ------------------------------------------------------------------------

\* INVALID_FILENAME_CHARS
INVALID_FILENAME_CHARS ==
    {"<", ">", ":", "\"", "/", "\\", "|", "?", "*", "NUL"}

\* str.strip on a text held as a sequence of characters.
RECURSIVE lstrip(_)
lstrip(text) ==
    IF text # <<>> /\ Head(text) = " " THEN lstrip(Tail(text)) ELSE text

RECURSIVE rstrip(_)
rstrip(text) ==
    IF text # <<>> /\ text[Len(text)] = " "
    THEN rstrip(SubSeq(text, 1, Len(text) - 1))
    ELSE text

\* sanitize_filename
sanitize_filename(name) ==
    LET cleaned == [k \in 1..Len(name) |->
                       IF name[k] \in INVALID_FILENAME_CHARS THEN "_"
                       ELSE name[k]]
        normalized == rstrip(lstrip(cleaned))
    IN  IF normalized # <<>> THEN normalized
        ELSE <<"M", "e", "m", "o", "r", "y">>

\* title_cfg.get("text", "Memory"): None stands for a missing key.
title_text(title) ==
    IF title = None THEN <<"M", "e", "m", "o", "r", "y">> ELSE title.v

\* The titles config.yaml may hold.
ConfigTitles ==
    {None, Str(<<"M", "y">>), Str(<<"a", ":", "b">>), Str(<<" ">>)}

\* The values of shortcut.image in config.yaml; None stands for a missing
\* key.
ConfigImages ==
    {None, Str(""), Str("icon.png"), Str("missing.png"), Str("photo.gif"),
     Str("broken.png")}

\* Path.exists on the image files of the fixture.
image_exists(path) == path \in {"icon.png", "photo.gif", "broken.png"}

\* Path.suffix.lower()
suffix_lower(path) == IF path = "photo.gif" THEN ".gif" ELSE ".png"

\* Image.open succeeds on the file.
image_opens(path) == path = "icon.png"

\* resolve_path: the path, or the exception it raises.
resolve_path(path_value) ==
    IF path_value = None \/ path_value.v = "" THEN
        [raised |-> "FileNotFoundError", path |-> ""]
    ELSE IF ~image_exists(path_value.v) THEN
        [raised |-> "FileNotFoundError", path |-> ""]
    ELSE IF suffix_lower(path_value.v) \notin {".png", ".jpg", ".jpeg"} THEN
        [raised |-> "ValueError", path |-> ""]
    ELSE
        [raised |-> "", path |-> path_value.v]

\* What a run of main leaves: the exception that ended it ("" for none),
\* the icon file written and the shortcut created (None for none).
Outcome(raised, icon_file, shortcut_file) ==
    [raised |-> raised, icon_file |-> icon_file,
     shortcut_file |-> shortcut_file]

\* Variant of main_outcome without the test of sys.platform.
main_outcome_any_platform(env) ==
    LET shortcut_name == title_text(env.title)
        image_path == resolve_path(env.image)
        icon_path == sanitize_filename(shortcut_name) \o <<".ico">>
        shortcut_path == sanitize_filename(shortcut_name) \o <<".lnk">>
    IN  IF image_path.raised # "" THEN
            Outcome(image_path.raised, None, None)
        ELSE IF ~env.python_exists THEN
            Outcome("SystemExit", None, None)
        ELSE IF ~image_opens(image_path.path) THEN
            Outcome("UnidentifiedImageError", None, None)
        ELSE IF env.returncode # 0 THEN
            Outcome("RuntimeError", Str(icon_path), None)
        ELSE
            Outcome("", Str(icon_path), Str(shortcut_path))

\* main, lines 175-195: the platform test, the configuration, resolve_path,
\* find_python_executable, convert_image_to_ico and create_shortcut, in
\* this order.
main_outcome(env) ==
    IF env.platform # "win32" THEN
        Outcome("SystemExit", None, None)
    ELSE
        LET shortcut_name == title_text(env.title)
            image_path == resolve_path(env.image)
            icon_path == sanitize_filename(shortcut_name) \o <<".ico">>
            shortcut_path == sanitize_filename(shortcut_name) \o <<".lnk">>
        IN  IF image_path.raised # "" THEN
                Outcome(image_path.raised, None, None)
            ELSE IF ~env.python_exists THEN
                Outcome("SystemExit", None, None)
            ELSE IF ~image_opens(image_path.path) THEN
                Outcome("UnidentifiedImageError", None, None)
            ELSE IF env.returncode # 0 THEN
                Outcome("RuntimeError", Str(icon_path), None)
            ELSE
                Outcome("", Str(icon_path), Str(shortcut_path))

\* The machines, configurations and disks the utility is run on.
ShortcutEnvs ==
    [platform : {"win32", "linux", "darwin"}, title : ConfigTitles,
     image : ConfigImages, python_exists : BOOLEAN, returncode : {0, 1}]

\* The utility is about to run; the game is not part of this run.
InitShortcut ==
    /\ \E env \in ShortcutEnvs :
           shortcut = [pc |-> "start", env |-> env,
                       out |-> Outcome("", None, None)]
    /\ deleted = {}
    /\ load_config(DEFAULT_BOTTOM_BORDER_PERCENT, DefaultScreen)
    /\ I18n_init(AppLocales, "de", "de")
    /\ t_result = None
    /\ menu_init("pics")
    /\ no_game

\* main runs to its end or to the exception that ends it.
main ==
    /\ shortcut.pc = "start"
    /\ shortcut' = [shortcut EXCEPT !.pc = "done",
                                    !.out = main_outcome(shortcut.env)]
    /\ UNCHANGED <<menu_vars, game_vars, pending, finish_calls, dialog,
                   last_op, review_button>>
    /\ UNCHANGED <<layout_vars, i18n_vars, settings_vars, deleted>>

NextShortcut == main

SpecShortcut == InitShortcut /\ [][NextShortcut]_vars

\* ------------------------------------------------------------------------
\* The last settings through a game, for every configuration of the menu
\* ------------------------------------------------------------------------

\* What a row of the names dialog can hold: the default name in either
\* language, an emptied entry, a typed name, and the name that
\* set_player_avatar (lines 1002-1022) writes with the avatar it stores.
NameRows(k) ==
    {[name |-> default_name(AppLocales, "de", "de", k), avatar |-> "cat.png"],
     [name |-> default_name(AppLocales, "de", "en", k), avatar |-> "cat.png"],
     [name |-> " Ann ", avatar |-> "dog.png"],
     [name |-> avatar_lookup["dog.png"], avatar |-> "dog.png"]}
    \cup {[name |-> text, avatar |-> "cat.png"] : text \in NameTexts}

\* The menu of a freshly constructed program on the folder "pics", after the
\* user has chosen the player count and the pair count, filled the names
\* dialog, and set sound and language in the settings dialog (both handlers
\* write their value into the last-settings record as well).
InitSettings ==
    \E players \in 1..MaxPlayers, pairs \in 1..Len(PicsFiles),
       sound \in BOOLEAN, lang \in {"de", "en"} :
        \E entries \in [1..players -> UNION {NameRows(k) : k \in 1..MaxPlayers}] :
            /\ \A k \in 1..players : entries[k] \in NameRows(k)
            /\ deleted = {}
            /\ load_config(DEFAULT_BOTTOM_BORDER_PERCENT, DefaultScreen)
            /\ i18n_messages = AppLocales
            /\ i18n_default = "de"
            /\ i18n_lang = lang
            /\ t_result = None
            /\ last_settings = [players |-> 1, folder |-> "pics",
                                pairs |-> 1, names |-> <<>>,
                                avatars |-> <<>>, sound_enabled |-> sound,
                                language |-> lang]
            /\ sound_enabled = sound
            /\ language_code = lang
            /\ player_name_vars = [k \in 1..players |-> entries[k].name]
            /\ player_avatar_vars = [k \in 1..players |-> entries[k].avatar]
            /\ menu_frame = TRUE
            /\ player_var = players
            /\ folder_var = "pics"
            /\ available_images = CountImages("pics")
            /\ pairs_var = pairs
            /\ start_enabled = StartButtonNormal("pics", pairs, available_images)
            /\ pending = 0
            /\ finish_calls = 0
            /\ dialog = NoDialog
            /\ last_op = [op |-> "__init__", branch |-> "done"]
            /\ no_game
            /\ shortcut = ShortcutIdle

NextSettings ==
    \/ start_game
    \/ return_to_menu
    \/ \E folder \in Directories : delete_folder(folder)

SpecSettings == InitSettings /\ [][NextSettings]_vars

\* Type invariant of the model.
TypeOK ==
    /\ menu_frame \in BOOLEAN
    /\ player_var \in 1..PLAYER_COLORS_LEN
    /\ folder_var \in Folders
    /\ pairs_var \in Nat
    /\ available_images \in Nat
    /\ start_enabled \in BOOLEAN
    /\ num_players \in 1..PLAYER_COLORS_LEN
    /\ num_cards = 2 * num_pairs
    /\ DOMAIN cards = Indices
    /\ DOMAIN card_paths = Indices
    /\ DOMAIN buttons = Indices
    /\ matched \subseteq Indices
    /\ pending \in 0..MaxPending
    /\ finish_calls \in Nat
    /\ sound_enabled \in BOOLEAN
    /\ language_code = i18n_lang
    /\ Len(player_name_vars) = Len(player_avatar_vars)
    /\ \/ review_button = None
       \/ review_button \in [mapped : BOOLEAN, state : {"normal", "disabled"}]
    /\ shortcut.pc \in {"idle", "start", "done"}

\* ------------------------------------------------------------------------
\* Properties
\* ------------------------------------------------------------------------

Players == 0..(num_players - 1)

\* The message boxes of finish_game.
FinishKinds == {"single_player_win", "multi_player_header_single",
                "multi_player_header_multi"}

\* C1: flip_card(idx) is a no-op whenever idx is matched, idx is in the
\* selection, or two cards are face-up: selection, matched set, owners,
\* scores, current player, gallery and buttons are unchanged and no
\* evaluation callback is scheduled.
C1_RejectedFlipIsNoOp ==
    [][(/\ last_op'.op = "flip_card"
        /\ \E idx \in Indices :
             /\ \/ idx \in matched
                \/ idx \in FlippedSet
                \/ Len(flipped) >= 2
             /\ flip_card(idx))
        => UNCHANGED <<flipped, matched, card_owner, player_scores,
                       current_player, matched_paths, buttons, pending>>]_vars

\* A flip was rejected while two cards were face-up and their evaluation
\* was pending.
C1_Witness ==
    /\ last_op = [op |-> "flip_card", branch |-> "rejected"]
    /\ Len(flipped) = 2
    /\ pending = 1

C3_FullPlayThroughTotals ==
    (~menu_frame /\ matched = Indices) =>
        /\ Cardinality(matched) = 2 * num_pairs
        /\ SumScores(player_scores, num_players) = num_pairs

\* A three-pair board was played through by two players, who took one and
\* two pairs.
C3_Witness ==
    /\ ~menu_frame
    /\ matched = Indices
    /\ num_pairs = 3
    /\ num_players = 2
    /\ player_scores[0] = 1
    /\ player_scores[1] = 2

\* C4: when check_match evaluates two equal cards, both join the matched
\* set, the current player's score and no other goes up by one, the path is
\* appended to the gallery exactly if the gallery does not hold it, and the
\* selection becomes empty.
C4_MatchEffect ==
    [][(/\ check_match
        /\ Len(flipped) = 2
        /\ cards[flipped[1]] = cards[flipped[2]])
       =>
       /\ matched' = matched \cup {flipped[1], flipped[2]}
       /\ \A p \in Players :
            player_scores'[p] =
                player_scores[p] + (IF p = current_player THEN 1 ELSE 0)
       /\ IF card_paths[flipped[1]] \in GalleryPaths
          THEN matched_paths' = matched_paths
          ELSE /\ Len(matched_paths') = Len(matched_paths) + 1
               /\ SubSeq(matched_paths', 1, Len(matched_paths)) = matched_paths
               /\ matched_paths'[Len(matched_paths')].path =
                      card_paths[flipped[1]]
       /\ flipped' = <<>>]_vars

\* Player 1 found the second pair of a board whose first pair is in the
\* gallery.
C4_Witness ==
    /\ last_op = [op |-> "check_match", branch |-> "match"]
    /\ current_player = 1
    /\ Len(matched_paths) = 2
    /\ flipped = <<>>

\* C5: when check_match evaluates two different cards, both are turned
\* face-down, the selection becomes empty, and matched set, owners, scores
\* and gallery are unchanged.
C5_MismatchEffect ==
    [][(/\ check_match
        /\ Len(flipped) = 2
        /\ cards[flipped[1]] # cards[flipped[2]])
       =>
       /\ buttons'[flipped[1]].image = "back"
       /\ buttons'[flipped[2]].image = "back"
       /\ flipped' = <<>>
       /\ UNCHANGED <<matched, card_owner, player_scores, matched_paths>>]_vars

\* A mismatch was evaluated in a two-player game and every card is face-down.
C5_Witness ==
    /\ last_op = [op |-> "check_match", branch |-> "mismatch"]
    /\ num_players = 2
    /\ flipped = <<>>
    /\ \A i \in Indices : buttons[i].image = "back"

\* C6: the flip selection holds at most two card indices, they are distinct,
\* and none of them is matched.
C6_SelectionInvariant ==
    /\ Len(flipped) <= 2
    /\ \A j, k \in 1..Len(flipped) : j # k => flipped[j] # flipped[k]
    /\ FlippedSet \cap matched = {}
    /\ FlippedSet \subseteq Indices

\* Two cards are face-up after an accepted flip.
C6_Witness ==
    /\ last_op = [op |-> "flip_card", branch |-> "accepted"]
    /\ Len(flipped) = 2

\* C7: finish_game has run exactly once when every card of the board is
\* matched and not at all while an unmatched card remains, and it runs in
\* the check_match step that matches the last pair.
C7_FinishExactlyAtEnd ==
    /\ [](~menu_frame =>
            finish_calls = (IF matched = Indices THEN 1 ELSE 0))
    /\ [][finish_calls' # finish_calls =>
            \/ /\ last_op'.op = "start_game"
               /\ finish_calls' = 0
            \/ /\ check_match
               /\ Len(flipped) = 2
               /\ matched # Indices
               /\ matched' = Indices
               /\ finish_calls' = finish_calls + 1]_vars

\* The last pair of a two-pair board was just matched and finish_game ran.
C7_Witness ==
    /\ ~menu_frame
    /\ last_op = [op |-> "check_match", branch |-> "match"]
    /\ num_pairs = 2
    /\ matched = Indices
    /\ finish_calls = 1
    /\ dialog.kind \in FinishKinds

\* C8: the players named as winners at game end are exactly the players with
\* the maximum score: the list is not empty, every listed player has the
\* maximum, every other player has strictly less, and all tied players are
\* listed.
C8_WinnersHaveMaxScore ==
    dialog.kind \in FinishKinds =>
        LET listed == {dialog.names[k] : k \in 1..Len(dialog.names)}
        IN  /\ listed # {}
            /\ listed \subseteq Players
            /\ \A p \in listed : \A q \in Players :
                   player_scores[q] <= player_scores[p]
            /\ \A p \in Players \ listed : \E q \in listed :
                   player_scores[p] < player_scores[q]
            /\ \A p \in Players :
                   (\A q \in Players : player_scores[q] <= player_scores[p])
                       => p \in listed

\* Two of three players tie with two pairs each and both are listed.
C8_Witness ==
    /\ dialog.kind = "multi_player_header_multi"
    /\ num_players = 3
    /\ player_scores[0] = 0
    /\ dialog.names = <<1, 2>>
    /\ dialog.pairs = 2

\* C9: no two gallery entries have the same source path.
C9_GalleryPathsUnique ==
    \A j, k \in 1..Len(matched_paths) :
        j # k => matched_paths[j].path # matched_paths[k].path

\* The gallery holds the two pairs of a finished board.
C9_Witness ==
    /\ Len(matched_paths) = 2
    /\ matched = Indices
    /\ num_players = 1

\* C10: the player stored with a gallery path is the owner of both cards
\* that carry the path, and an entry is stored with the player who is the
\* current player in the check_match step that appends it.
C10_GalleryRecordsFinder ==
    /\ [](\A k \in 1..Len(matched_paths) :
            /\ matched_paths[k].player \in Players
            /\ Cardinality({i \in Indices :
                   card_paths[i] = matched_paths[k].path}) = 2
            /\ \A i \in Indices :
                 card_paths[i] = matched_paths[k].path =>
                     /\ i \in DOMAIN card_owner
                     /\ card_owner[i] = matched_paths[k].player)
    /\ [][Len(matched_paths') > Len(matched_paths) =>
            /\ check_match
            /\ Len(flipped) = 2
            /\ matched_paths'[Len(matched_paths')] =
                   [path |-> card_paths[flipped[1]],
                    player |-> current_player]]_vars

\* The gallery holds two pairs found by two different players.
C10_Witness ==
    /\ Len(matched_paths) = 2
    /\ matched_paths[1].player = 1
    /\ matched_paths[2].player = 0

\* C13: the board of a dealt game has 2 x num_pairs cards, every image on
\* the board is on exactly two cards, and two cards show the same image
\* exactly when they have the same source path.
C13_DealtBoard ==
    ~menu_frame =>
        /\ num_cards = 2 * num_pairs
        /\ DOMAIN cards = Indices
        /\ DOMAIN card_paths = Indices
        /\ \A i \in Indices :
             Cardinality({j \in Indices : cards[j] = cards[i]}) = 2
        /\ \A i, j \in Indices :
             (cards[i] = cards[j]) <=> (card_paths[i] = card_paths[j])

\* A board of three pairs whose first and last card show the same image.
C13_Witness ==
    /\ ~menu_frame
    /\ num_pairs = 3
    /\ cards[0] = cards[5]
    /\ card_paths[1] = card_paths[2]

\* C14: a flip_card or check_match step leaves the card images and the card
\* paths as the deal made them, and so does every step within a game.
C14_BoardImmutable ==
    [][(\/ last_op'.op \in {"flip_card", "check_match"}
        \/ (~menu_frame /\ ~menu_frame'))
       => UNCHANGED <<cards, card_paths, num_cards>>]_vars

\* A match has been evaluated after a mismatch: flips and evaluations acted.
C14_Witness ==
    /\ ~menu_frame
    /\ last_op = [op |-> "check_match", branch |-> "match"]
    /\ num_players = 2
    /\ current_player = 1
    /\ Cardinality(matched) = 2

\* C15: in a running game the selection size changes only from 0 to 1 and
\* from 1 to 2, by an accepted flip, and from 2 to 0, by an evaluation.
C15_SelectionStateMachine ==
    [][(~menu_frame /\ ~menu_frame' /\ Len(flipped') # Len(flipped)) =>
          \/ /\ Len(flipped) \in {0, 1}
             /\ Len(flipped') = Len(flipped) + 1
             /\ last_op' = [op |-> "flip_card", branch |-> "accepted"]
          \/ /\ Len(flipped) = 2
             /\ Len(flipped') = 0
             /\ last_op'.op = "check_match"
             /\ last_op'.branch \in {"match", "mismatch"}]_vars

\* The selection is idle again after a mismatch was evaluated, and the
\* next card is face up.
C15_Witness ==
    /\ ~menu_frame
    /\ Len(flipped) = 1
    /\ current_player = 1
    /\ matched = {}
    /\ last_op = [op |-> "flip_card", branch |-> "accepted"]

\* C16: a selection is evaluated only by the callback scheduled by its own
\* second flip: when check_match evaluates a selection, no callback older
\* than the selection is outstanding.
C16_EvaluatedByOwnCallback ==
    [][(/\ last_op'.op = "check_match"
        /\ last_op'.branch \in {"match", "mismatch"})
       => StaleTimers = 0]_vars

\* C20: a card has an owner exactly when it is matched, the owner is a
\* player of the game, and the two cards of a matched pair have one owner.
C20_OwnerIffMatched ==
    /\ DOMAIN card_owner = matched
    /\ matched \subseteq Indices
    /\ \A i \in matched : card_owner[i] \in Players
    /\ \A i, j \in matched :
         cards[i] = cards[j] => card_owner[i] = card_owner[j]

\* Two pairs are matched and belong to two different players.
C20_Witness ==
    /\ Cardinality(matched) = 4
    /\ \E i, j \in matched : card_owner[i] # card_owner[j]
    /\ num_players = 2

\* The layout lines of build_game_ui have run.
LayoutDone == last_op.op = "build_game_ui"

\* C11: for every card count N in 1..MaxGridCards, calculate_grid gives the
\* least number of columns whose square is at least N and the least number of
\* rows that, with these columns, hold N cards; columns * rows >= N.
C11_GridCoversCards ==
    LayoutDone =>
        /\ cols * cols >= num_cards
        /\ (cols - 1) * (cols - 1) < num_cards
        /\ rows * cols >= num_cards
        /\ (rows - 1) * cols < num_cards

\* Fifty cards are laid out in seven rows of eight columns.
C11_Witness ==
    /\ LayoutDone
    /\ num_cards = 50
    /\ cols = 8
    /\ rows = 7

\* The largest size k such that k columns-wide and k rows-high cards fit into
\* the available width and height is the truncated minimum of the quotients.
Fits(k) ==
    /\ k * cols <= available_w(screen, screen.sidebar)
    /\ k * rows <= available_h(screen, 0, bottom_border_percent)

\* C12, as the claim states it: the card size lies between 60 and 240 for
\* every grid and display.
C12_SizeBetweenFallbackAndCap ==
    LayoutDone => (card_size >= FALLBACK_CARD_SIZE /\ card_size <= MAX_CARD_SIZE)

\* C12, amended: the card size is the truncated minimum of available width /
\* columns and available height / rows, capped at 240; 60 replaces the
\* truncated minimum only when that is not positive.  The size lies between
\* 1 and 240.
C12_SizeFitsOrFallback ==
    LayoutDone =>
        /\ card_size >= 1
        /\ card_size <= MAX_CARD_SIZE
        /\ IF ~Fits(1) THEN card_size = FALLBACK_CARD_SIZE
           ELSE /\ Fits(card_size)
                /\ card_size = MAX_CARD_SIZE \/ ~Fits(card_size + 1)

\* Fifty cards on a display of 1024 x 600 get a size of 56.
C12_Witness ==
    /\ LayoutDone
    /\ num_cards = 50
    /\ screen.h = 600
    /\ bottom_border_percent = 10
    /\ card_size = 56

\* The catalog of the language holds a string under the key.
HasString(lang, key) ==
    /\ lang \in DOMAIN i18n_messages
    /\ isinstance_str(resolve(i18n_messages[lang], split(key)))

\* The string the catalog of the language holds under the key.
StoredString(lang, key) == resolve(i18n_messages[lang], split(key)).v

\* C19: t(key) returns the string stored under key in the current language;
\* when the current language has no string for key, the string stored under
\* key in the default language; when neither has one, the raw key.
C19_TranslateFallsBack ==
    t_result # None =>
        t_result.value =
            IF HasString(i18n_lang, t_result.key)
            THEN StoredString(i18n_lang, t_result.key)
            ELSE IF HasString(i18n_default, t_result.key)
                 THEN StoredString(i18n_default, t_result.key)
                 ELSE t_result.key

\* C17: when return_to_menu ends a game and the folder of the game is still
\* on the disk, the menu is prefilled with the player count, folder, pair
\* count, names and avatars the game was started with, and the sound toggle
\* and the language stay as they are.
C17_SettingsRoundTrip ==
    [][(/\ last_op'.op = "return_to_menu"
        /\ ~menu_frame
        /\ isdir(folder_var))
       => /\ player_var' = num_players
          /\ folder_var' = folder_var
          /\ pairs_var' = num_pairs
          /\ player_name_vars' = player_names
          /\ player_avatar_vars' = player_avatars
          /\ sound_enabled' = sound_enabled
          /\ language_code' = language_code
          /\ i18n_lang' = i18n_lang]_vars

\* Back in the menu after a game of two players and three pairs, started
\* with a typed name, an avatar name, sound off and the second language.
C17_Witness ==
    /\ last_op.op = "return_to_menu"
    /\ player_var = 2
    /\ pairs_var = 3
    /\ player_name_vars = <<"Ann", "dog">>
    /\ player_avatar_vars = <<"cat.png", "dog.png">>
    /\ ~sound_enabled
    /\ language_code = "en"

\* The branches of start_game that end with an error dialog.
ErrorBranches == {"invalid_folder", "no_images", "invalid_pair_count",
                  "loading_error"}

\* C18: after a start_game that met a missing or invalid folder, a folder
\* without images, a pair count outside 1..(number of images), or fewer
\* decodable images than pairs, the error dialog is shown, the menu is on
\* screen and there is no board, no card, no selection and no matched card.
C18_ErrorEndsInMenu ==
    (last_op.op = "start_game" /\ last_op.branch \in ErrorBranches) =>
        /\ dialog.kind = last_op.branch
        /\ menu_frame
        /\ num_cards = 0
        /\ cards = <<>>
        /\ card_paths = <<>>
        /\ buttons = <<>>
        /\ flipped = <<>>
        /\ matched = {}

\* Two pairs were asked of the folder whose second image does not decode.
C18_Witness ==
    /\ last_op = [op |-> "start_game", branch |-> "loading_error"]
    /\ dialog.kind = "loading_error"
    /\ folder_var = "mixed"
    /\ pairs_var = 2
    /\ menu_frame

\* The gallery button is packed into the sidebar.
ReviewShown == review_button # None /\ review_button.mapped

\* The gallery button reacts to a press.
ReviewEnabled == review_button # None /\ review_button.state = "normal"

\* C21: the gallery button is shown or enabled only while a board is on
\* screen and every card of it is matched.
C21_ReviewOnlyAfterEnd ==
    (ReviewShown \/ ReviewEnabled) =>
        /\ ~menu_frame
        /\ num_cards > 0
        /\ matched = Indices

\* A game of two pairs has ended and its gallery can be opened.
C21_Witness ==
    /\ ReviewShown
    /\ ReviewEnabled
    /\ num_cards = 4
    /\ matched = Indices
    /\ Len(matched_paths) = 2

\* The run of main has ended, normally or with an exception.
MainDone == shortcut.pc = "done"

\* The source image is not configured or is not on the disk.
ImageMissing ==
    \/ shortcut.env.image = None
    \/ shortcut.env.image.v = ""
    \/ ~image_exists(shortcut.env.image.v)

\* C22: on a platform other than Windows, or with a source image that is
\* not configured or does not exist, main ends with an exception, no icon
\* file has been written and no shortcut has been created.
C22_RaisesBeforeWriting ==
    (MainDone /\ (shortcut.env.platform # "win32" \/ ImageMissing)) =>
        /\ shortcut.out.raised \in {"SystemExit", "FileNotFoundError"}
        /\ shortcut.env.platform # "win32"
               => shortcut.out.raised = "SystemExit"
        /\ shortcut.out.icon_file = None
        /\ shortcut.out.shortcut_file = None

\* On Windows the configured image is not on the disk.
C22_Witness ==
    /\ MainDone
    /\ shortcut.env.platform = "win32"
    /\ shortcut.env.image = Str("missing.png")
    /\ shortcut.out.raised = "FileNotFoundError"
    /\ shortcut.out.icon_file = None

\* C23: a check_match that finds fewer than two cards face up changes
\* neither the selection, the matched set, the owners, the scores, the
\* current player nor the gallery, and does not call finish_game.
C23_EarlyCallbackIsNoOp ==
    [][(last_op'.op = "check_match" /\ Len(flipped) < 2)
       => /\ UNCHANGED <<flipped, matched, card_owner, player_scores,
                         current_player, matched_paths>>
          /\ UNCHANGED <<finish_calls, review_button, buttons, cards>>
          /\ dialog' = NoDialog]_vars

\* The callback of a game that return_to_menu tore down has fired in the
\* menu.
C23_Witness ==
    /\ last_op = [op |-> "check_match", branch |-> "ignored"]
    /\ menu_frame
    /\ flipped = <<>>
    /\ finish_calls = 0

\* The cards a player owns.
OwnedBy(player) == {i \in DOMAIN card_owner : card_owner[i] = player}

\* C24: in every state of a game the scores add up to half the number of
\* matched cards, every player's score is half the number of cards the
\* player owns, and the gallery has one entry per matched pair.
C24_ScoreAccounting ==
    ~menu_frame =>
        /\ 2 * SumScores(player_scores, num_players) = Cardinality(matched)
        /\ \A player \in Players :
               2 * player_scores[player] = Cardinality(OwnedBy(player))
        /\ 2 * Len(matched_paths) = Cardinality(matched)

\* In the middle of a game of three pairs the second player has found one
\* pair and the first player none, and a card is face up.
C24_Witness ==
    /\ ~menu_frame
    /\ num_cards = 6
    /\ num_players = 2
    /\ Cardinality(matched) = 2
    /\ player_scores[0] = 0
    /\ player_scores[1] = 1
    /\ Len(matched_paths) = 1
    /\ Len(flipped) = 1

\* C25: right after a start_game that started a game every score is 0, the
\* matched set, the owners, the selection and the gallery are empty, and
\* the first player is the current player.
C25_CleanStart ==
    last_op = [op |-> "start_game", branch |-> "started"] =>
        /\ DOMAIN player_scores = Players
        /\ \A player \in Players : player_scores[player] = 0
        /\ matched = {}
        /\ card_owner = <<>>
        /\ flipped = <<>>
        /\ matched_paths = <<>>
        /\ current_player = 0

\* A game of two players has started while the callback of the game
\* before it, abandoned with two cards face up, is still outstanding.
C25_Witness ==
    /\ last_op = [op |-> "start_game", branch |-> "started"]
    /\ pending = 1
    /\ num_players = 2
    /\ num_cards = 4

\* C26: a start_game that ends in an error dialog leaves the last-settings
\* record as it was before the attempt.
C26_ErrorKeepsLastSettings ==
    [][(last_op'.op = "start_game" /\ last_op'.branch \in ErrorBranches)
       => UNCHANGED last_settings]_vars

\* Every unmatched card of the board can be flipped.
FlipsAccepted ==
    \A idx \in Indices \ matched : ~flip_rejected(idx, flipped, matched)

\* C27: when scheduled callbacks are run, two cards face up lead to an
\* empty selection, in which every unmatched card is accepted by flip_card.
C27_EvaluationEnds ==
    (~menu_frame /\ Len(flipped) = 2) ~> (flipped = <<>> /\ FlipsAccepted)

\* A mismatch on a board of two pairs was evaluated: the selection is empty
\* again and all four cards can be flipped.
C27_Witness ==
    /\ last_op = [op |-> "check_match", branch |-> "mismatch"]
    /\ num_cards = 4
    /\ matched = {}
    /\ flipped = <<>>
    /\ FlipsAccepted

\* C28: the current player is a player of the game, 0 <= current_player <
\* num_players, and in a game that player has a score to credit.
C28_CurrentPlayerInRange ==
    /\ current_player \in 0..(num_players - 1)
    /\ ~menu_frame => current_player \in DOMAIN player_scores

\* The last of the players has the turn and was just credited a pair.
C28_Witness ==
    /\ last_op = [op |-> "check_match", branch |-> "match"]
    /\ num_players = MaxPlayers
    /\ current_player = num_players - 1
    /\ player_scores[current_player] = 1
    /\ \E i \in matched : card_owner[i] = current_player

\* C29: the player count of the menu stays in 1..6 and its pair count
\* never exceeds the number of images counted; a game on screen has 1..6
\* players, between 1 pair and as many pairs as images were found in its
\* folder, and two cards per pair.
C29_CountsInRange ==
    /\ player_var \in 1..PLAYER_COLORS_LEN
    /\ pairs_var \in 0..available_images
    /\ ~menu_frame =>
           /\ num_players \in 1..PLAYER_COLORS_LEN
           /\ num_pairs \in 1..available_images
           /\ num_cards = 2 * num_pairs
    /\ last_op = [op |-> "start_game", branch |-> "started"] =>
           /\ available_images = CountImages(folder_var)
           /\ num_players = player_var
           /\ num_pairs = pairs_var

\* A game of six players on all three images of the folder has started.
C29_Witness ==
    /\ last_op = [op |-> "start_game", branch |-> "started"]
    /\ num_players = PLAYER_COLORS_LEN
    /\ num_pairs = 3
    /\ num_cards = 6
    /\ available_images = 3

\* The code the last call of I18N.set_language asked for.
RequestedCode == last_op.code

\* C30: with at least one locale loaded the active language is a loaded
\* locale; after set_language a requested code that is loaded is the active
\* language, a request that names no loaded locale, with or without its
\* surrounding blanks and capitals, leaves the default locale active, and
\* the call returns true exactly when the active language changed.
C30_ActiveLanguageLoaded ==
    /\ [](DOMAIN i18n_messages # {} =>
            /\ i18n_lang \in DOMAIN i18n_messages
            /\ last_op.op = "I18n.set_language" =>
                   /\ RequestedCode \in DOMAIN i18n_messages
                          => i18n_lang = RequestedCode
                   /\ ({RequestedCode, normalize_code(RequestedCode)}
                          \cap DOMAIN i18n_messages = {})
                          => i18n_lang = i18n_default)
    /\ [][last_op'.op = "I18n.set_language" =>
            (last_op'.branch = "True" <=> i18n_lang' # i18n_lang)]_vars

====
